---- MODULE Spec2Model ----
(***************************************************************************)
(* Model of the nagios-range crate (src/src/types.rs): the NagiosRange     *)
(* value, its two constructors (from a text, from explicit bounds), its    *)
(* queries and its text rendering.                                         *)
(*                                                                         *)
(* A text is a sequence of one-character strings.  An f64 is a record      *)
(* [k, v]: k = "fin" with the integer v, or k = "ninf" / "pinf" / "nan"    *)
(* with v = 0.  The texts explored are all texts over Alphabet up to       *)
(* MaxLen characters; Alphabet has no '.', 'e' or 'E', so every finite     *)
(* numeral of the model is a signed decimal integer and the fraction and   *)
(* exponent syntax of the float grammar is never exercised.                *)
(***************************************************************************)
EXTENDS Integers, Sequences, FiniteSets, TLC

\* ---------------------------------------------------------------- bounds
MaxLen == 4
MaxNum == 2

Alphabet == {"@", ":", "~", "-", "1", "2", "N", "a", "i", "n", "f"}

\* ------------------------------------------------------------------- f64
Fin(n) == [k |-> "fin", v |-> n]
NEG_INFINITY == [k |-> "ninf", v |-> 0]
INFINITY == [k |-> "pinf", v |-> 0]
NAN == [k |-> "nan", v |-> 0]

is_nan(a) == a.k = "nan"
is_infinite(a) == a.k \in {"ninf", "pinf"}
is_finite(a) == a.k = "fin"

\* IEEE-754 comparisons: every comparison with a NaN operand is false.
f64_lt(a, b) ==
    /\ ~is_nan(a)
    /\ ~is_nan(b)
    /\ \/ a.k = "ninf" /\ b.k # "ninf"
       \/ a.k = "fin" /\ b.k = "pinf"
       \/ a.k = "fin" /\ b.k = "fin" /\ a.v < b.v
f64_eq(a, b) == ~is_nan(a) /\ ~is_nan(b) /\ a = b
f64_gt(a, b) == f64_lt(b, a)
f64_le(a, b) == f64_lt(a, b) \/ f64_eq(a, b)
f64_ge(a, b) == f64_lt(b, a) \/ f64_eq(a, b)

\* ----------------------------------------------------------------- texts
Texts == UNION {[1..n -> Alphabet] : n \in 0..MaxLen}

Digits == <<"0", "1", "2", "3", "4", "5", "6", "7", "8", "9">>
IsDigit(c) == \E d \in 1..10 : Digits[d] = c
DigitVal(c) == (CHOOSE d \in 1..10 : Digits[d] = c) - 1

to_ascii_lowercase(c) ==
    CASE c = "N" -> "n"
      [] c = "A" -> "a"
      [] c = "I" -> "i"
      [] c = "F" -> "f"
      [] c = "T" -> "t"
      [] c = "Y" -> "y"
      [] OTHER -> c
Lower(s) == [j \in 1..Len(s) |-> to_ascii_lowercase(s[j])]

RECURSIVE DecValue(_)
DecValue(s) ==
    IF s = <<>> THEN 0
    ELSE 10 * DecValue(SubSeq(s, 1, Len(s) - 1)) + DigitVal(s[Len(s)])

ParseOk(f) == [ok |-> TRUE, val |-> f, kind |-> "none"]
ParseErr(kind) == [ok |-> FALSE, val |-> Fin(0), kind |-> kind]

\* str::parse::<f64>: an optional sign, then decimal digits, or one of the
\* case-insensitive words inf, infinity, nan.  The empty text fails with
\* kind Empty, every other rejected text with kind Invalid.
parse(s) ==
    IF s = <<>> THEN ParseErr("Empty")
    ELSE LET negative == s[1] = "-"
             body == IF s[1] \in {"-", "+"} THEN Tail(s) ELSE s
             word == Lower(body)
         IN  IF body = <<>> THEN ParseErr("Invalid")
             ELSE IF \A j \in 1..Len(body) : IsDigit(body[j])
                  THEN ParseOk(Fin(IF negative THEN 0 - DecValue(body)
                                               ELSE DecValue(body)))
             ELSE IF word \in {<<"i", "n", "f">>,
                               <<"i", "n", "f", "i", "n", "i", "t", "y">>}
                  THEN ParseOk(IF negative THEN NEG_INFINITY ELSE INFINITY)
             ELSE IF word = <<"n", "a", "n">> THEN ParseOk(NAN)
             ELSE ParseErr("Invalid")

\* ------------------------------------------------------------ NagiosRange
NoRange == [check_type |-> "Outside", start |-> Fin(0), end |-> Fin(0)]
Ok(ct, s, e) ==
    [tag |-> "Ok", cause |-> "none",
     range |-> [check_type |-> ct, start |-> s, end |-> e]]
Err(tag, cause) == [tag |-> tag, cause |-> cause, range |-> NoRange]

\* str::strip_prefix('@'): the rest after one leading '@', if there is one.
strip_prefix(input) ==
    IF input # <<>> /\ input[1] = "@"
    THEN [some |-> TRUE, rest |-> Tail(input)]
    ELSE [some |-> FALSE, rest |-> input]

\* str::split_once(':'): the parts around the first ':'.
split_once(range) ==
    IF \E j \in 1..Len(range) : range[j] = ":"
    THEN LET p == CHOOSE j \in 1..Len(range) :
                     /\ range[j] = ":"
                     /\ \A h \in 1..(j - 1) : range[h] # ":"
         IN  [some |-> TRUE,
              p0 |-> SubSeq(range, 1, p - 1),
              p1 |-> SubSeq(range, p + 1, Len(range))]
    ELSE [some |-> FALSE, p0 |-> <<>>, p1 |-> <<>>]

\* parse_start with the two defaults exchanged: an empty left part read as
\* unbounded and '~' read as 0.
parse_start_defaults_swapped(p0) ==
    IF p0 = <<"~">> THEN ParseOk(Fin(0))
    ELSE IF p0 = <<>> THEN ParseOk(NEG_INFINITY)
    ELSE parse(p0)

\* The lower bound of parse_range when a ':' is present.
parse_start(p0) ==
    IF p0 = <<"~">> THEN ParseOk(NEG_INFINITY)
    ELSE IF p0 = <<>> THEN ParseOk(Fin(0))
    ELSE parse(p0)

\* parse_end reading a right part '~' as an unbounded upper bound.
parse_end_tilde_unbounded(start, p1) ==
    IF p1 = <<>> \/ p1 = <<"~">> THEN Ok("Outside", start, INFINITY)
    ELSE LET num == parse(p1)
         IN  IF ~num.ok THEN Err("ParseEndPoint", num.kind)
             ELSE IF f64_gt(start, num.val) THEN Err("StartGreaterThanEnd", "none")
             ELSE Ok("Outside", start, num.val)

\* The upper bound of parse_range when a ':' is present, given the lower
\* bound that was resolved first.
parse_end(start, p1) ==
    IF p1 = <<>> THEN Ok("Outside", start, INFINITY)
    ELSE LET num == parse(p1)
         IN  IF ~num.ok THEN Err("ParseEndPoint", num.kind)
             ELSE IF f64_gt(start, num.val) THEN Err("StartGreaterThanEnd", "none")
             ELSE Ok("Outside", start, num.val)

\* parse_range resolving the right part before the left part.
parse_range_end_first(range) ==
    LET parts == split_once(range)
    IN  IF parts.some
        THEN LET num == IF parts.p1 = <<>> THEN ParseOk(INFINITY)
                        ELSE parse(parts.p1)
                 start == parse_start(parts.p0)
             IN  IF ~num.ok THEN Err("ParseEndPoint", num.kind)
                 ELSE IF ~start.ok THEN Err("ParseStartPoint", start.kind)
                 ELSE parse_end(start.val, parts.p1)
        ELSE LET end == parse(range)
             IN  IF ~end.ok THEN Err("ParseEndPoint", end.kind)
                 ELSE Ok("Outside", Fin(0), end.val)

\* parse_range answers Ok with the pair of bounds (the check_type of the
\* answer is a placeholder that from overwrites) or the error.
parse_range(range) ==
    LET parts == split_once(range)
    IN  IF parts.some
        THEN LET start == parse_start(parts.p0)
             IN  IF ~start.ok THEN Err("ParseStartPoint", start.kind)
                 ELSE parse_end(start.val, parts.p1)
        ELSE LET end == parse(range)
             IN  IF ~end.ok THEN Err("ParseEndPoint", end.kind)
                 ELSE Ok("Outside", Fin(0), end.val)

from(input) ==
    IF input = <<>> THEN Err("EmptyRange", "none")
    ELSE LET stripped == strip_prefix(input)
             check_type == IF stripped.some THEN "Inside" ELSE "Outside"
             bounds == parse_range(stripped.rest)
         IN  IF bounds.tag # "Ok" THEN bounds
             ELSE Ok(check_type, bounds.range.start, bounds.range.end)

new(check_type, start, end) ==
    IF f64_gt(start, end) THEN Err("StartGreaterThanEnd", "none")
    ELSE Ok(check_type, start, end)

\* #[derive(PartialEq)] on NagiosRange: field by field, f64 fields by ==.
range_eq(a, b) ==
    /\ a.check_type = b.check_type
    /\ f64_eq(a.start, b.start)
    /\ f64_eq(a.end, b.end)

start_is_infinite(r) == is_infinite(r.start)
end_is_infinite(r) == is_infinite(r.end)

contains(r, item) == f64_ge(item, r.start) /\ f64_le(item, r.end)

check(r, item) ==
    IF r.check_type = "Inside"
    THEN f64_ge(item, r.start) /\ f64_le(item, r.end)
    ELSE f64_lt(item, r.start) \/ f64_gt(item, r.end)

into_inner(r) == <<r.check_type, r.start, r.end>>

\* f64::to_string for the values of the model: the decimal digits of a
\* finite integer value with a leading '-' when negative, or the word NaN.
RECURSIVE DecDigits(_)
DecDigits(n) ==
    IF n < 10 THEN <<Digits[n + 1]>>
    ELSE Append(DecDigits(n \div 10), Digits[(n % 10) + 1])

f64_to_string(a) ==
    CASE a.k = "nan" -> <<"N", "a", "N">>
      [] a.k = "pinf" -> <<"i", "n", "f">>
      [] a.k = "ninf" -> <<"-", "i", "n", "f">>
      [] OTHER -> IF a.v < 0 THEN <<"-">> \o DecDigits(0 - a.v)
                  ELSE DecDigits(a.v)

\* impl fmt::Display for NagiosRange
to_string(r) ==
    LET start == IF is_infinite(r.start) THEN <<"~">>
                 ELSE f64_to_string(r.start)
        end == IF is_infinite(r.end) THEN <<"~">>
               ELSE f64_to_string(r.end)
    IN  IF r.check_type = "Inside"
        THEN <<"@">> \o start \o <<":">> \o end
        ELSE start \o <<":">> \o end

\* ---------------------------------------------------------- state machine
CheckType == {"Inside", "Outside"}
Specials == {NEG_INFINITY, INFINITY, NAN}
\* Explicit bounds handed to new, and samples handed to contains and check.
Bounds == {Fin(n) : n \in (0 - MaxNum)..MaxNum} \cup Specials
Samples == {Fin(n) : n \in (0 - MaxNum - 1)..(MaxNum + 1)} \cup Specials

VARIABLES pc, origin, input, res, sample, contained, alerted, text, res2,
          startInf, endInf

vars == <<pc, origin, input, res, sample, contained, alerted, text, res2,
          startInf, endInf>>

Init ==
    /\ pc = "init"
    /\ origin = "none"
    /\ input = <<>>
    /\ res = Err("EmptyRange", "none")
    /\ sample = Fin(0)
    /\ contained = FALSE
    /\ alerted = FALSE
    /\ text = <<>>
    /\ res2 = Err("EmptyRange", "none")
    /\ startInf = FALSE
    /\ endInf = FALSE

\* A caller constructs a range from the text t.
From(t) ==
    /\ pc = "init"
    /\ origin' = "from"
    /\ input' = t
    /\ res' = from(t)
    /\ pc' = IF from(t).tag = "Ok" THEN "constructed" ELSE "failed"
    /\ UNCHANGED <<sample, contained, alerted, text, res2, startInf, endInf>>

\* A caller constructs a range from explicit bounds.
New(ct, s, e) ==
    /\ pc = "init"
    /\ origin' = "new"
    /\ res' = new(ct, s, e)
    /\ pc' = IF new(ct, s, e).tag = "Ok" THEN "constructed" ELSE "failed"
    /\ UNCHANGED <<input, sample, contained, alerted, text, res2, startInf,
                   endInf>>

\* The caller asks contains(x) of the constructed range ...
Contains(x) ==
    /\ pc = "constructed"
    /\ sample' = x
    /\ contained' = contains(res.range, x)
    /\ pc' = "contained"
    /\ UNCHANGED <<origin, input, res, alerted, text, res2, startInf, endInf>>

\* ... and then check(x) with the same sample.
Check ==
    /\ pc = "contained"
    /\ alerted' = check(res.range, sample)
    /\ pc' = "checked"
    /\ UNCHANGED <<origin, input, res, sample, contained, text, res2,
                   startInf, endInf>>

StartIsInfinite ==
    /\ pc = "constructed"
    /\ startInf' = start_is_infinite(res.range)
    /\ pc' = "asked_start"
    /\ UNCHANGED <<origin, input, res, sample, contained, alerted, text, res2,
                   endInf>>

EndIsInfinite ==
    /\ pc = "constructed"
    /\ endInf' = end_is_infinite(res.range)
    /\ pc' = "asked_end"
    /\ UNCHANGED <<origin, input, res, sample, contained, alerted, text, res2,
                   startInf>>

\* The caller renders the range ...
Render ==
    /\ pc = "constructed"
    /\ text' = to_string(res.range)
    /\ pc' = "rendered"
    /\ UNCHANGED <<origin, input, res, sample, contained, alerted, res2,
                   startInf, endInf>>

\* ... and constructs a second range from the rendered text.
Reparse ==
    /\ pc = "rendered"
    /\ res2' = from(text)
    /\ pc' = "reparsed"
    /\ UNCHANGED <<origin, input, res, sample, contained, alerted, text,
                   startInf, endInf>>

\* The caller destructures the range and hands the triple to new.
Rebuild ==
    /\ pc = "constructed"
    /\ LET t == into_inner(res.range)
       IN  res2' = new(t[1], t[2], t[3])
    /\ pc' = "rebuilt"
    /\ UNCHANGED <<origin, input, res, sample, contained, alerted, text,
                   startInf, endInf>>

Next ==
    \/ pc = "init" /\ \E t \in Texts : From(t)
    \/ pc = "init" /\ \E ct \in CheckType, s \in Bounds, e \in Bounds : New(ct, s, e)
    \/ pc = "constructed" /\ \E x \in Samples : Contains(x)
    \/ Check
    \/ StartIsInfinite
    \/ EndIsInfinite
    \/ Render
    \/ Reparse
    \/ Rebuild

Spec == Init /\ [][Next]_vars

\* ------------------------------------------------- reading of a text
\* The parts of a text as the grammar names them, stated on positions of
\* the text: the remainder after at most one leading '@', the position of
\* the first ':' (0 when there is none), and the texts left and right of it.
Marked(t) == t # <<>> /\ t[1] = "@"
Remainder(t) == IF Marked(t) THEN SubSeq(t, 2, Len(t)) ELSE t
ColonAt(t) ==
    LET rem == Remainder(t)
        at == {j \in 1..Len(rem) : rem[j] = ":"}
    IN  IF at = {} THEN 0 ELSE CHOOSE j \in at : \A h \in at : j <= h
HasColon(t) == ColonAt(t) > 0
LeftOf(t) == SubSeq(Remainder(t), 1, ColonAt(t) - 1)
RightOf(t) == SubSeq(Remainder(t), ColonAt(t) + 1, Len(Remainder(t)))
\* The end text: right of the first ':', or the whole remainder.
EndText(t) == IF HasColon(t) THEN RightOf(t) ELSE Remainder(t)
IsNumeral(t) == parse(t).ok
Malformed(t) == t # <<>> /\ ~IsNumeral(t)
\* lower <= x <= upper on the extended reals (no NaN lies in any interval).
Within(lo, x, hi) ==
    /\ ~is_nan(lo) /\ ~is_nan(x) /\ ~is_nan(hi)
    /\ lo.k = "ninf" \/ x.k = "pinf" \/ (lo.k = "fin" /\ x.k = "fin" /\ lo.v <= x.v)
    /\ hi.k = "pinf" \/ x.k = "ninf" \/ (hi.k = "fin" /\ x.k = "fin" /\ x.v <= hi.v)

\* ------------------------------------------------------------------ C1
\* C1: every range a constructor returns as Ok has lower <= upper when both
\* bounds are finite.
C1_FiniteBoundsOrdered ==
    (res.tag = "Ok" /\ is_finite(res.range.start) /\ is_finite(res.range.end))
        => res.range.start.v <= res.range.end.v

\* ------------------------------------------------------------------ C2
\* C2: contains(x) is true iff lower <= x <= upper, and check(x) equals
\* contains(x) under Inside and its negation under Outside.
C2_ContainsAndCheck ==
    pc = "checked" =>
        /\ contained = Within(res.range.start, sample, res.range.end)
        /\ alerted = IF res.range.check_type = "Inside" THEN contained
                     ELSE ~contained

\* ------------------------------------------------------------------ C3
\* C3: when from(text) is Ok, polarity is Inside iff the text starts with
\* '@'; without ':' lower = 0 and upper is the number the remainder denotes;
\* with ':' lower is 0 for an empty left part, -inf for '~', else the number
\* the left part denotes, and upper is +inf for an empty right part, else
\* the number the right part denotes.
C3_TripleFromText ==
    (origin = "from" /\ res.tag = "Ok") =>
        /\ res.range.check_type = (IF Marked(input) THEN "Inside" ELSE "Outside")
        /\ IF HasColon(input)
           THEN /\ CASE LeftOf(input) = <<>> -> res.range.start = Fin(0)
                     [] LeftOf(input) = <<"~">> -> res.range.start = NEG_INFINITY
                     [] OTHER -> /\ IsNumeral(LeftOf(input))
                                 /\ res.range.start = parse(LeftOf(input)).val
                /\ IF RightOf(input) = <<>>
                   THEN res.range.end = INFINITY
                   ELSE /\ IsNumeral(RightOf(input))
                        /\ res.range.end = parse(RightOf(input)).val
           ELSE /\ res.range.start = Fin(0)
                /\ IsNumeral(Remainder(input))
                /\ res.range.end = parse(Remainder(input)).val

C3_Witness ==
    /\ origin = "from"
    /\ res.tag = "Ok"
    /\ input = <<"@", "~", ":", "2">>
    /\ res.range = [check_type |-> "Inside", start |-> NEG_INFINITY, end |-> Fin(2)]

\* ------------------------------------------------------------------ C4
\* C4: the text rendered from a constructed range parses again, to a range
\* whose check agrees with the original on every sample.
C4_RoundTrip ==
    pc = "reparsed" =>
        /\ res2.tag = "Ok"
        /\ \A x \in Samples : check(res2.range, x) = check(res.range, x)

\* ------------------------------------------------------------------ C5
\* C5: the empty text fails with EmptyRange; otherwise a malformed left part
\* fails with ParseStartPoint, else a malformed right part or sole token
\* fails with ParseEndPoint, and StartGreaterThanEnd is returned only when
\* both bounds have parsed.
C5_ErrorPrecedence ==
    origin = "from" =>
        /\ (input = <<>>) <=> (res.tag = "EmptyRange")
        /\ (input # <<>> /\ HasColon(input)) =>
              IF Malformed(LeftOf(input)) /\ LeftOf(input) # <<"~">>
              THEN res.tag = "ParseStartPoint"
              ELSE IF Malformed(RightOf(input))
                   THEN res.tag = "ParseEndPoint"
                   ELSE res.tag \in {"Ok", "StartGreaterThanEnd"}
        /\ (input # <<>> /\ ~HasColon(input) /\ Malformed(Remainder(input)))
              => res.tag = "ParseEndPoint"
        /\ res.tag = "StartGreaterThanEnd" =>
              /\ HasColon(input)
              /\ LeftOf(input) \in {<<>>, <<"~">>} \/ IsNumeral(LeftOf(input))
              /\ IsNumeral(RightOf(input))

\* "2:a": the left part is a number, the right part is malformed.
C5_Witness ==
    /\ origin = "from"
    /\ HasColon(input)
    /\ IsNumeral(LeftOf(input))
    /\ parse(LeftOf(input)).val = Fin(2)
    /\ Malformed(RightOf(input))
    /\ res.tag = "ParseEndPoint"

\* ------------------------------------------------------------------ C6
\* C6: '~' is accepted only as the whole left part: a right part '~' after a
\* valid left part and a sole token '~' fail with ParseEndPoint, and a left
\* part that mixes '~' with other characters fails with ParseStartPoint.
C6_TildeOnlyWholeLeft ==
    (origin = "from" /\ input # <<>>) =>
        /\ ( /\ HasColon(input)
             /\ RightOf(input) = <<"~">>
             /\ ~(Malformed(LeftOf(input)) /\ LeftOf(input) # <<"~">>) )
              => res.tag = "ParseEndPoint"
        /\ (~HasColon(input) /\ Remainder(input) = <<"~">>)
              => res.tag = "ParseEndPoint"
        /\ ( /\ HasColon(input)
             /\ Len(LeftOf(input)) > 1
             /\ \E j \in 1..Len(LeftOf(input)) : LeftOf(input)[j] = "~" )
              => res.tag = "ParseStartPoint"

C6_Witness ==
    /\ origin = "from"
    /\ input = <<"~", ":", "~">>
    /\ res.tag = "ParseEndPoint"

\* ------------------------------------------------------------------ C7
\* C7: from returns ParseEndPoint only when the end text is non-empty.
C7_EndPointOnlyForNonEmptyEnd ==
    (origin = "from" /\ res.tag = "ParseEndPoint") => EndText(input) # <<>>

\* ------------------------------------------------------------------ C8
\* C8: start_is_infinite() is true iff the lower bound is -inf, and
\* end_is_infinite() is true iff the upper bound is +inf.
C8_UnboundedSides ==
    /\ pc = "asked_start" => (startInf <=> res.range.start = NEG_INFINITY)
    /\ pc = "asked_end" => (endInf <=> res.range.end = INFINITY)

\* ------------------------------------------------------------------ C9
\* C9: new applied to the triple of a range that from returned is Ok and
\* equal to that range.
C9_RebuildEqual ==
    (pc = "rebuilt" /\ origin = "from") =>
        /\ res2.tag = "Ok"
        /\ range_eq(res2.range, res.range)

\* ----------------------------------------------------------------- C10
\* C10: no range that from returns as Ok has a NaN bound.
C10_NoNaNFromText ==
    (origin = "from" /\ res.tag = "Ok") =>
        /\ ~is_nan(res.range.start)
        /\ ~is_nan(res.range.end)

====
